---------------------------- MODULE Spec2Model ----------------------------
(***************************************************************************)
(* A model of the logs dashboard API (backend/app): the Log table, the     *)
(* request-scoped transactional session of get_db, the CRUD handlers of    *)
(* routers/logs.py stepped at their database statements, and the read      *)
(* queries (list, export, stats) as functions of a table state.            *)
(*                                                                         *)
(* Conventions.  A string is a sequence of one-character strings.  An      *)
(* Optional value is a set with at most one element: {} is None/NULL and   *)
(* {v} is the value v.  A datetime is a number of hours since an epoch.    *)
(* A table is a set of rows; a row is a record over Columns whose          *)
(* message, severity, source and metadata_json hold Optional values (SQL   *)
(* columns hold NULL unless a constraint forbids it).                      *)
(***************************************************************************)
EXTENDS Integers, Sequences, FiniteSets, TLC

\* ------------------------------------------------------------ bounds

\* The id sequence stops handing out ids after this many inserts.
MaxId == 2
\* The server stops accepting requests after this many.
MaxRequests == 4

\* --------------------------------------------------------- data model

LogSeverity == {"DEBUG", "INFO", "WARNING", "ERROR", "CRITICAL"}

Columns ==
  {"id", "timestamp", "message", "severity", "source", "metadata_json",
   "created_at", "updated_at"}

\* A mutant of the table: severity annotated Mapped[LogSeverity | None].
NotNullColumnsButSeverity ==
  {"id", "timestamp", "message", "source", "created_at", "updated_at"}

\* Columns the table declares NOT NULL (nullable=False, or a Mapped[T]
\* annotation that is not Optional); only metadata_json is nullable.
NotNullColumns ==
  {"id", "timestamp", "message", "severity", "source", "created_at",
   "updated_at"}

\* Length limits of the request schemas.
MessageMaxLength == 10000
SourceMaxLength == 255
MinLength == 1

\* The fields of LogUpdate.
LogUpdateFields == {"message", "severity", "source", "metadata_json"}

None == {}
Some(v) == {v}
TheValue(opt) == CHOOSE v \in opt : TRUE

\* Hours in a calendar day (cast(timestamp, Date) buckets by day).
HoursPerDay == 24
\* Clock reading at start-up: day 50, 10:00.
StartHour == 50 * HoursPerDay + 10

\* --------------------------------------------------------- validation

\* LogCreate: message and source required, 1..max characters; severity
\* defaults to INFO and, when given, must be a member of the enum;
\* metadata_json and timestamp are optional and may be null.
ValidLogCreate(body) ==
  /\ "message" \in DOMAIN body
  /\ body["message"] # None
  /\ Len(TheValue(body["message"])) >= MinLength
  /\ Len(TheValue(body["message"])) <= MessageMaxLength
  /\ "source" \in DOMAIN body
  /\ body["source"] # None
  /\ Len(TheValue(body["source"])) >= MinLength
  /\ Len(TheValue(body["source"])) <= SourceMaxLength
  /\ "severity" \in DOMAIN body =>
        /\ body["severity"] # None
        /\ TheValue(body["severity"]) \in LogSeverity

\* LogUpdate: every field Optional with default None, so an explicit null
\* passes; a non-null message/source must have 1..max characters and a
\* non-null severity must be a member of the enum.
ValidLogUpdate(body) ==
  /\ "message" \in DOMAIN body /\ body["message"] # None =>
        /\ Len(TheValue(body["message"])) >= MinLength
        /\ Len(TheValue(body["message"])) <= MessageMaxLength
  /\ "source" \in DOMAIN body /\ body["source"] # None =>
        /\ Len(TheValue(body["source"])) >= MinLength
        /\ Len(TheValue(body["source"])) <= SourceMaxLength
  /\ "severity" \in DOMAIN body /\ body["severity"] # None =>
        TheValue(body["severity"]) \in LogSeverity

\* log_data.model_dump(exclude_unset=True): exactly the supplied fields
\* (an explicit null is supplied), restricted to the schema's fields.
model_dump(body) ==
  [f \in DOMAIN body \cap LogUpdateFields |-> body[f]]


\* ------------------------------------------------------------- state

VARIABLES
  db,       \* the committed logs table: a set of rows
  seq,      \* last value handed out by the id sequence of logs.id
  now,      \* the clock: hours elapsed since StartHour
  sess,     \* per session slot: the request it serves and its transaction
  issued,   \* history: ids returned by creates that completed, in order
  deleted,  \* history: ids whose delete request committed
  served,   \* number of requests accepted so far
  out       \* the response of a read query, until it is delivered

vars == <<db, seq, now, sess, issued, deleted, served, out>>

\* The requests served concurrently: two session slots.
Sessions == {"s1", "s2"}

utcnow == StartHour + now

EmptyBody == [f \in {} |-> None]

IdleSession ==
  [pc |-> "idle", op |-> "none", id |-> 0, data |-> EmptyBody,
   dirty |-> EmptyBody, stamp |-> 0, wrote |-> FALSE, ins |-> None,
   status |-> 0, resp |-> None, open |-> FALSE,
   commits |-> 0, rollbacks |-> 0, closes |-> 0,
   seen |-> "none", rivals |-> {}]

\* A request is accepted: the slot is free and the server still accepts.
\* Requests arrive an hour apart.
Accept(s) ==
  /\ sess[s].pc = "idle"
  /\ served < MaxRequests
  /\ served' = served + 1
  /\ now' = now + 1

\* AsyncSessionFactory(): a fresh open session serving request op.
NewSession(op, id, body) ==
  [IdleSession EXCEPT !.op = op, !.id = id, !.data = body, !.open = TRUE]

\* ------------------------------------------------- get_db: the session

OkStatuses == {200, 201, 204}

\* session.commit(), session.rollback() and session.close() as they act
\* on the session's record; both ends of a transaction release its locks,
\* and close expunges what the session held, leaving the request and its
\* outcome.
commit(r) == [r EXCEPT !.commits = @ + 1, !.wrote = FALSE]
rollback(r) == [r EXCEPT !.rollbacks = @ + 1, !.wrote = FALSE]
close(r) ==
  [r EXCEPT !.closes = @ + 1, !.open = FALSE, !.dirty = EmptyBody,
            !.stamp = 0, !.ins = None, !.rivals = {}]

\* The exit of `async with AsyncSessionFactory() as session`, which
\* closes the session (a second close, on a session already closed).
aexit(r) == close(r)

\* get_db after the yield returns normally: commit, then the finally
\* block's close, then the exit of the async-with block.
get_db_return(r) == [aexit(close(commit(r))) EXCEPT !.pc = "done"]

\* A mutant of get_db: `except SQLAlchemyError` in place of
\* `except Exception`, so that an HTTPException skips the rollback.
get_db_raise_db_errors_only(r) ==
  [aexit(close(IF r.status = 500 THEN rollback(r) ELSE r))
     EXCEPT !.pc = "done"]

\* get_db when an exception is thrown into the generator (the handler's
\* HTTPException and the request validation error included):
\* `except Exception: rollback; raise`, then the finally block's close,
\* then the exit of the async-with block.
get_db_raise(r) == [aexit(close(rollback(r))) EXCEPT !.pc = "done"]

\* The request fails with the given status.
Raise(r, code) == get_db_raise([r EXCEPT !.status = code])

\* select(Log).where(Log.id == log_id)
Select(table, log_id) == {r \in table : r["id"] = log_id}

\* result.scalars().first()
First(rows) == CHOOSE r \in rows : TRUE

\* for field, value in update_data.items(): setattr(log, field, value).
\* The unit of work records an attribute as modified only when the value
\* set differs from the value loaded; the UPDATE carries those columns.
Dirty(row, update_data) ==
  [f \in {g \in DOMAIN update_data : row[g] # update_data[g]}
     |-> update_data[f]]

\* A mutant of the table: onupdate=func.now() on timestamp as well.
ApplyUpdateTouchingTimestamp(row, dirty, t) ==
  [c \in Columns |->
     IF c \in DOMAIN dirty THEN dirty[c]
     ELSE IF c \in {"updated_at", "timestamp"} THEN t
     ELSE row[c]]

\* The row after UPDATE logs SET <dirty columns>, updated_at = now()
\* (updated_at has onupdate=func.now()).
ApplyUpdate(row, dirty, t) ==
  [c \in Columns |->
     IF c \in DOMAIN dirty THEN dirty[c]
     ELSE IF c = "updated_at" THEN t
     ELSE row[c]]

\* A mutant of the id column: the next id is one past the largest id
\* stored (a rowid that is reused after the last row is deleted).
NextIdReused(table, s) ==
  IF table = {} THEN 1
  ELSE 1 + (CHOOSE m \in {r["id"] : r \in table} :
              \A r \in table : r["id"] <= m)

\* logs.id, an Integer primary key: the next value of its sequence.
NextId(table, s) == s + 1

\* Log(message=..., severity=..., source=..., metadata_json=...,
\*     timestamp=log_data.timestamp or datetime.utcnow()) as inserted:
\* id from the sequence, created_at/updated_at from server_default now().
NewLog(log_data, new_id, t) ==
  [id |-> new_id,
   timestamp |->
     IF "timestamp" \in DOMAIN log_data /\ log_data["timestamp"] # None
     THEN TheValue(log_data["timestamp"]) ELSE t,
   message |-> log_data["message"],
   severity |->
     IF "severity" \in DOMAIN log_data
     THEN log_data["severity"] ELSE Some("INFO"),
   source |-> log_data["source"],
   metadata_json |->
     IF "metadata_json" \in DOMAIN log_data
     THEN log_data["metadata_json"] ELSE None,
   created_at |-> t,
   updated_at |-> t]

\* Whether another session's transaction holds the row lock of log_id
\* (it has executed an UPDATE of the row and not yet ended).
LockedByOther(s, log_id) ==
  \E t \in Sessions \ {s} : sess[t].wrote /\ sess[t].id = log_id

\* Whether the id was, at this moment, issued and not deleted / deleted.
Seen(log_id) ==
  IF log_id \in deleted THEN "deleted"
  ELSE IF \E i \in 1..Len(issued) : issued[i] = log_id THEN "live"
  ELSE "none"

\* ------------------------------------------------------ request inputs

msgA == <<"a">>
msgB == <<"b">>
srcS == <<"s">>
metaJ == <<"{", "}">>

\* Bodies of POST /logs: a minimal one, a full one with its own timestamp,
\* and one that fails validation (empty message).
CreateBodies ==
  { [message |-> Some(msgA), source |-> Some(srcS)],
    [message |-> Some(msgB), severity |-> Some("ERROR"),
     source |-> Some(srcS), metadata_json |-> Some(metaJ),
     timestamp |-> Some(StartHour - HoursPerDay)],
    [message |-> Some(<<>>), source |-> Some(srcS)] }

\* Bodies of PUT /logs/{id}: empty, single fields, several fields, explicit
\* nulls, and one that fails validation (empty source).
UpdateBodies ==
  { EmptyBody,
    [severity |-> Some("ERROR")],
    [severity |-> Some("INFO")],
    [message |-> Some(msgB), metadata_json |-> None],
    [message |-> None, severity |-> Some("ERROR")],
    [source |-> None, message |-> Some(msgB)],
    [severity |-> None],
    [source |-> Some(<<>>), severity |-> Some("ERROR")] }

LogIds == 1..MaxId

\* ------------------------------------------------------------ handlers

\* POST /logs up to the handler's return: the body is validated (a body
\* that fails raises before the handler runs), the session acquired, the
\* Log built, INSERTed by `await db.flush()` within the session's
\* transaction (the id drawn from the sequence) and re-read by
\* `await db.refresh(log)`.
create_log(s, log_data) ==
  /\ Accept(s)
  /\ IF ~ValidLogCreate(log_data)
     THEN /\ sess' = [sess EXCEPT ![s] =
                 Raise(NewSession("create", 0, log_data), 422)]
          /\ seq' = seq
     ELSE /\ seq < MaxId
          /\ seq' = seq + 1
          /\ sess' = [sess EXCEPT ![s] =
               LET log == NewLog(log_data, NextId(db, seq), utcnow)
               IN [NewSession("create", log["id"], log_data) EXCEPT
                     !.pc = "commit", !.status = 201,
                     !.ins = Some(log), !.resp = Some(log)]]
  /\ UNCHANGED <<db, issued, deleted, out>>

\* GET /logs/{log_id}: the select, then 404 or the row; the request
\* writes nothing, so its commit is part of the same step.
get_log(s, log_id) ==
  /\ Accept(s)
  /\ LET found == Select(db, log_id)
         new == [NewSession("get", log_id, EmptyBody) EXCEPT
                   !.seen = Seen(log_id)]
     IN sess' = [sess EXCEPT ![s] =
          IF found = {}
          THEN Raise(new, 404)
          ELSE get_db_return([new EXCEPT !.status = 200,
                                         !.resp = Some(First(found))])]
  /\ UNCHANGED <<db, seq, issued, deleted, out>>

\* PUT /logs/{log_id} up to `await db.flush()`: validation of the body,
\* the select, 404 when absent, then the setattr loop over the supplied
\* fields (synchronous, so one step with the select's return).
update_log(s, log_id, log_data) ==
  /\ Accept(s)
  /\ LET found == Select(db, log_id)
         new == NewSession("update", log_id, log_data)
     IN sess' = [sess EXCEPT ![s] =
          IF ~ValidLogUpdate(log_data)
          THEN Raise(new, 422)
          ELSE IF found = {}
          THEN Raise([new EXCEPT !.seen = Seen(log_id)], 404)
          ELSE [new EXCEPT !.pc = "flush", !.seen = Seen(log_id),
                           !.dirty = Dirty(First(found),
                                           model_dump(log_data))]]
  /\ UNCHANGED <<db, seq, issued, deleted, out>>

\* DELETE /logs/{log_id}: the select, 404 when absent, else the row is
\* marked deleted in the session (the DELETE is emitted at commit).
delete_log(s, log_id) ==
  /\ Accept(s)
  /\ LET found == Select(db, log_id)
         new == [NewSession("delete", log_id, EmptyBody) EXCEPT
                   !.seen = Seen(log_id)]
     IN sess' = [sess EXCEPT ![s] =
          IF found = {}
          THEN Raise(new, 404)
          ELSE [new EXCEPT !.pc = "commit", !.status = 204]]
  /\ UNCHANGED <<db, seq, issued, deleted, out>>

\* Whether the UPDATE of the modified columns d fails: no row matches the
\* id any more, or a NOT NULL column is set to NULL.
UpdateFails(table, log_id, d) ==
  \/ Select(table, log_id) = {}
  \/ \E c \in DOMAIN d \cap NotNullColumns : d[c] = None

\* A mutant of update_log: each modified attribute is written and
\* committed on its own, so the fields before a failing one stay applied.
flush_field_by_field(s) ==
  /\ sess[s].pc = "flush"
  /\ LET d == sess[s].dirty
         ok == [c \in {x \in DOMAIN d : d[x] # None} |-> d[c]]
         rows == Select(db, sess[s].id)
     IN /\ DOMAIN d # {} => ~LockedByOther(s, sess[s].id)
        /\ IF UpdateFails(db, sess[s].id, d)
           THEN /\ sess' = [sess EXCEPT ![s] = Raise(@, 500)]
                /\ db' = (db \ rows)
                           \cup {ApplyUpdate(r, ok, utcnow) : r \in rows}
           ELSE /\ sess' = [sess EXCEPT ![s] =
                     [@ EXCEPT !.pc = "commit", !.status = 200,
                               !.wrote = (DOMAIN d # {}), !.stamp = utcnow,
                               !.resp = Some(ApplyUpdate(First(rows), d,
                                                         utcnow))]]
                /\ db' = db
  /\ UNCHANGED <<seq, now, issued, deleted, served, out>>

\* update_log from `await db.flush()` to its return.  The flush sends
\* nothing when no attribute is modified; otherwise one UPDATE statement
\* carries all modified columns: it waits while another transaction holds
\* the row lock, raises when it fails, and otherwise holds the row lock
\* until the transaction ends.  `await db.refresh(log)` then re-reads the
\* row (under the lock the row as just updated) and raises when it is
\* gone.
flush_refresh(s) ==
  /\ sess[s].pc = "flush"
  /\ LET d == sess[s].dirty
         rows == Select(db, sess[s].id)
     IN IF DOMAIN d = {}
        THEN sess' = [sess EXCEPT ![s] =
               IF rows = {}
               THEN Raise(@, 500)
               ELSE [@ EXCEPT !.pc = "commit", !.status = 200,
                              !.resp = Some(First(rows))]]
        ELSE /\ ~LockedByOther(s, sess[s].id)
             /\ sess' = [sess EXCEPT ![s] =
                  IF UpdateFails(db, sess[s].id, d)
                  THEN Raise(@, 500)
                  ELSE [@ EXCEPT !.pc = "commit", !.status = 200,
                                 !.wrote = TRUE, !.stamp = utcnow,
                                 !.resp = Some(ApplyUpdate(First(rows), d,
                                                           utcnow))]]
  /\ UNCHANGED <<db, seq, now, issued, deleted, served, out>>

\* A mutant of delete_log: the row is never handed to db.delete.
CommittedWithoutDelete(s) ==
  LET r == sess[s] IN
  IF r.op = "create" THEN db \cup r.ins
  ELSE IF r.op = "update" /\ r.wrote
  THEN (db \ Select(db, r.id))
         \cup {ApplyUpdate(x, r.dirty, r.stamp) : x \in Select(db, r.id)}
  ELSE db

\* The table after session s's transaction commits: its INSERT, its
\* UPDATE, or (delete_log) the DELETE that the commit's flush emits.
Committed(s) ==
  LET r == sess[s] IN
  IF r.op = "create" THEN db \cup r.ins
  ELSE IF r.op = "update" /\ r.wrote
  THEN (db \ Select(db, r.id))
         \cup {ApplyUpdate(x, r.dirty, r.stamp) : x \in Select(db, r.id)}
  ELSE IF r.op = "delete" THEN db \ Select(db, r.id)
  ELSE db

\* The handler has returned: get_db commits and releases the session.
\* A delete's DELETE waits for the row lock of another transaction.
Commit(s) ==
  /\ sess[s].pc = "commit"
  /\ sess[s].op = "delete" => ~LockedByOther(s, sess[s].id)
  /\ db' = Committed(s)
  /\ issued' = IF sess[s].op = "create"
               THEN Append(issued, sess[s].id) ELSE issued
  /\ deleted' = IF sess[s].op = "delete"
                THEN deleted \cup {sess[s].id} ELSE deleted
  /\ sess' = [t \in Sessions |->
       IF t = s
       THEN get_db_return(sess[s])
       ELSE IF /\ sess[s].op = "update"
               /\ sess[t].op = "update"
               /\ sess[t].id = sess[s].id
               /\ sess[t].pc \in {"flush", "commit"}
       THEN [sess[t] EXCEPT !.rivals = @ \cup DOMAIN sess[s].data]
       ELSE sess[t]]
  /\ UNCHANGED <<seq, now, served, out>>

\* The request has ended; its slot serves the next request.
Respond(s) ==
  /\ sess[s].pc = "done"
  /\ sess' = [sess EXCEPT ![s] = IdleSession]
  /\ UNCHANGED <<db, seq, now, issued, deleted, served, out>>

\* ------------------------------------------------------- read queries

NoOutput == [op |-> "none"]

\* The response of a read query is delivered to its client.
Deliver ==
  /\ out # NoOutput
  /\ out' = NoOutput
  /\ UNCHANGED <<db, seq, now, sess, issued, deleted, served>>

MAX_PAGE_SIZE == 100
DEFAULT_PAGE_SIZE == 20
\* timedelta(days=30)
ThirtyDays == 30
\* .limit(10) of the source breakdown
TopSources == 10

\* cast(Log.timestamp, Date): the calendar day of a datetime.
DateOf(t) == t \div HoursPerDay

\* datetime.isoformat(): the date and the time of day.
isoformat(t) == <<t \div HoursPerDay, t % HoursPerDay>>

\* Lower case of a character (ILIKE compares case-insensitively).
Lower(c) ==
  CASE c = "A" -> "a"
    [] c = "B" -> "b"
    [] c = "C" -> "c"
    [] c = "S" -> "s"
    [] c = "Y" -> "y"
    [] OTHER -> c

\* SQL LIKE on lower-cased operands: % matches any run of characters,
\* _ any one character, any other character itself.
RECURSIVE ILike(_, _)
ILike(text, pattern) ==
  IF pattern = <<>> THEN text = <<>>
  ELSE IF Head(pattern) = "%"
  THEN ILike(text, Tail(pattern))
         \/ (text # <<>> /\ ILike(Tail(text), pattern))
  ELSE /\ text # <<>>
       /\ Head(pattern) = "_" \/ Lower(Head(pattern)) = Lower(Head(text))
       /\ ILike(Tail(text), Tail(pattern))

\* Python truth of an Optional query parameter: None and "" are false;
\* a datetime and an enum member are always true.
Truthy(opt) == opt # None /\ TheValue(opt) # <<>>

\* column.ilike(f"%{value}%") on a column that may hold NULL.
Contains(col, value) ==
  col # None /\ ILike(TheValue(col), <<"%">> \o value \o <<"%">>)

\* A mutant of list_logs: the end_date condition left out.
list_conditions_no_end(r, q) ==
  /\ q.start_date # None => r["timestamp"] >= TheValue(q.start_date)
  /\ q.severity # None => r["severity"] = q.severity
  /\ Truthy(q.source) => Contains(r["source"], TheValue(q.source))
  /\ Truthy(q.search) => Contains(r["message"], TheValue(q.search))

\* list_logs: the conjunction of its conditions on row r.
list_conditions(r, q) ==
  /\ q.start_date # None => r["timestamp"] >= TheValue(q.start_date)
  /\ q.end_date # None => r["timestamp"] <= TheValue(q.end_date)
  /\ q.severity # None => r["severity"] = q.severity
  /\ Truthy(q.source) => Contains(r["source"], TheValue(q.source))
  /\ Truthy(q.search) => Contains(r["message"], TheValue(q.search))

\* export_logs_csv: the conjunction of its conditions on row r
\* (Log.source == source).
export_conditions(r, q) ==
  /\ q.start_date # None => r["timestamp"] >= TheValue(q.start_date)
  /\ q.end_date # None => r["timestamp"] <= TheValue(q.end_date)
  /\ q.severity # None => r["severity"] = q.severity
  /\ Truthy(q.source) => r["source"] = q.source

\* get_log_stats: whether its list of conditions is empty, and their
\* conjunction on row r.
stats_has_conditions(q) ==
  q.start_date # None \/ q.end_date # None \/ Truthy(q.source)

stats_conditions(r, q) ==
  /\ q.start_date # None => r["timestamp"] >= TheValue(q.start_date)
  /\ q.end_date # None => r["timestamp"] <= TheValue(q.end_date)
  /\ Truthy(q.source) => r["source"] = q.source

\* select(func.count(Log.id)).where(and_(*conditions)) of list_logs.
list_total(table, q) == Cardinality({r \in table : list_conditions(r, q)})

\* Position of a severity in the enum's declaration, the order in which
\* the database's enum type sorts.
SeverityRank(sev) ==
  CASE sev = "DEBUG" -> 0
    [] sev = "INFO" -> 1
    [] sev = "WARNING" -> 2
    [] sev = "ERROR" -> 3
    [] sev = "CRITICAL" -> 4

\* Attributes of the Log class that are not columns.
OtherLogAttributes == {"metadata", "registry", "__tablename__", "__repr__"}

\* Columns whose order the model defines (numbers, and the enum).
OrderedColumns == {"id", "timestamp", "severity", "created_at", "updated_at"}

\* getattr(Log, sort_by, Log.timestamp): the attribute of that name when
\* the class has one, else the timestamp column.
sort_column(sort_by) ==
  IF sort_by \in Columns \cup OtherLogAttributes THEN sort_by
  ELSE "timestamp"

\* The value a row is ordered by under a column.
SortKey(r, col) ==
  IF col = "severity" THEN SeverityRank(TheValue(r[col])) ELSE r[col]

\* The orders in which the database may return the rows under
\* ORDER BY col ASC/DESC: every arrangement that respects the keys
\* (rows with equal keys come in any order).
OrderBy(rows, col, descending) ==
  LET n == Cardinality(rows)
  IN {f \in [1..n -> rows] :
        /\ \A i, j \in 1..n : i # j => f[i] # f[j]
        /\ \A i, j \in 1..n : i < j =>
             IF descending
             THEN SortKey(f[i], col) >= SortKey(f[j], col)
             ELSE SortKey(f[i], col) <= SortKey(f[j], col)}

\* sort_order.lower() == "asc"
IsAsc(sort_order) ==
  Len(sort_order) = 3
  /\ Lower(sort_order[1]) = "a"
  /\ Lower(sort_order[2]) = "s"
  /\ Lower(sort_order[3]) = "c"

Min(a, b) == IF a <= b THEN a ELSE b
Max(a, b) == IF a >= b THEN a ELSE b

\* A mutant of list_logs: offset = page * page_size.
PageOffByOne(ordered, page, page_size) ==
  SubSeq(ordered, page * page_size + 1,
         Min(Len(ordered), page * page_size + page_size))

\* query.offset((page - 1) * page_size).limit(page_size)
Page(ordered, page, page_size) ==
  SubSeq(ordered, (page - 1) * page_size + 1,
         Min(Len(ordered), (page - 1) * page_size + page_size))

\* (total + page_size - 1) // page_size
total_pages(total, page_size) == (total + page_size - 1) \div page_size

\* A mutant of list_logs: page_size without its upper limit.
ValidListParamsNoMax(q) == q.page >= 1 /\ q.page_size >= 1

\* page: Query(1, ge=1); page_size: Query(DEFAULT_PAGE_SIZE, ge=1,
\* le=MAX_PAGE_SIZE).
ValidListParams(q) ==
  q.page >= 1 /\ q.page_size >= 1 /\ q.page_size <= MAX_PAGE_SIZE

\* GET /logs.  page < 1 or page_size outside 1..MAX_PAGE_SIZE fails
\* validation before the handler runs; a sort_by naming an attribute of
\* Log that is no column makes asc()/desc() raise after the count query
\* has run; otherwise the count query, then the page query.  queries is
\* the number of statements the request has executed.
list_logs(q) ==
  /\ out = NoOutput
  /\ LET valid == ValidListParams(q)
         sortable == sort_column(q.sort_by) \in Columns
         total == list_total(db, q)
         rows == {r \in db : list_conditions(r, q)}
     IN \E ordered \in
            IF valid /\ sortable
            THEN OrderBy(rows, sort_column(q.sort_by), ~IsAsc(q.sort_order))
            ELSE {<<>>} :
          out' =
            IF ~valid
            THEN [op |-> "list", q |-> q, status |-> 422, queries |-> 0]
            ELSE IF ~sortable
            THEN [op |-> "list", q |-> q, status |-> 500, queries |-> 1]
            ELSE [op |-> "list", q |-> q, status |-> 200, queries |-> 2,
                  items |-> Page(ordered, q.page, q.page_size),
                  total |-> total, page |-> q.page,
                  page_size |-> q.page_size,
                  total_pages |-> total_pages(total, q.page_size)]
  /\ UNCHANGED <<db, seq, now, sess, issued, deleted, served>>

CsvHeader == <<"ID", "Timestamp", "Severity", "Source", "Message">>

\* writer.writerow([log.id, log.timestamp.isoformat(), log.severity.value,
\*                  log.source, log.message])
CsvRow(r) ==
  <<r["id"], isoformat(r["timestamp"]), TheValue(r["severity"]),
    TheValue(r["source"]), TheValue(r["message"])>>

\* GET /logs/export: the matching rows by timestamp descending, written
\* as a header record and one record per row.
export_logs_csv(q) ==
  /\ out = NoOutput
  /\ \E ordered \in OrderBy({r \in db : export_conditions(r, q)},
                            "timestamp", TRUE) :
       out' = [op |-> "export", q |-> q, status |-> 200,
               csv |-> <<CsvHeader>>
                         \o [i \in 1..Len(ordered) |-> CsvRow(ordered[i])]]
  /\ UNCHANGED <<db, seq, now, sess, issued, deleted, served>>

\* select(label, count(id)).group_by(label): one row per label present.
GroupCount(rows, col) ==
  {[label |-> TheValue(v),
    count |-> Cardinality({r \in rows : r[col] = v})] :
     v \in {r[col] : r \in rows}}

\* .order_by(desc("count")): every arrangement of the groups with the
\* counts non-increasing (groups of equal count come in any order).
OrderByCountDesc(groups) ==
  LET n == Cardinality(groups)
  IN {f \in [1..n -> groups] :
        /\ \A i, j \in 1..n : i # j => f[i] # f[j]
        /\ \A i, j \in 1..n : i < j => f[i].count >= f[j].count}

\* select(cast(timestamp, Date), count(id)).group_by(date).order_by(date):
\* one row per calendar day that has a row, ascending.
DailyCounts(rows) ==
  LET days == {DateOf(r["timestamp"]) : r \in rows}
      n == Cardinality(days)
      asc == CHOOSE f \in [1..n -> days] :
               \A i, j \in 1..n : i < j => f[i] < f[j]
  IN [i \in 1..n |->
        [date |-> asc[i],
         count |-> Cardinality({r \in rows : DateOf(r["timestamp"]) = asc[i]})]]

\* datetime.utcnow() - timedelta(days=30)
thirty_days_ago == utcnow - ThirtyDays * HoursPerDay

\* The rows get_log_stats counts in its trend: those matching the
\* conditions when there is any condition, else those of the last 30 days.
stats_trend_rows(table, q) ==
  IF stats_has_conditions(q)
  THEN {r \in table : stats_conditions(r, q)}
  ELSE {r \in table : r["timestamp"] >= thirty_days_ago}

\* GET /logs/stats.
get_log_stats(q) ==
  /\ out = NoOutput
  /\ LET rows == {r \in db : stats_conditions(r, q)}
     IN \E sev \in OrderByCountDesc(GroupCount(rows, "severity")),
           src \in OrderByCountDesc(GroupCount(rows, "source")) :
          out' = [op |-> "stats", q |-> q, status |-> 200,
                  total_logs |-> Cardinality(rows),
                  severity_breakdown |-> sev,
                  source_breakdown |-> SubSeq(src, 1, Min(TopSources, Len(src))),
                  trend_data |-> DailyCounts(stats_trend_rows(db, q)),
                  date_range |-> [start |-> q.start_date, end |-> q.end_date]]
  /\ UNCHANGED <<db, seq, now, sess, issued, deleted, served>>

\* get_log_trend: the conjunction of its conditions on row r; with no
\* date bound, the last 30 days.
trend_conditions(r, q) ==
  /\ q.start_date # None => r["timestamp"] >= TheValue(q.start_date)
  /\ q.end_date # None => r["timestamp"] <= TheValue(q.end_date)
  /\ q.severity # None => r["severity"] = q.severity
  /\ Truthy(q.source) => r["source"] = q.source
  /\ (q.start_date = None /\ q.end_date = None) =>
       r["timestamp"] >= thirty_days_ago

\* A mutant of get_log_trend: a row for every severity on every day that
\* has a row, whatever its count.
TrendGroupsDense(rows, group_by_severity) ==
  LET days == {DateOf(r["timestamp"]) : r \in rows}
  IN IF group_by_severity
     THEN {[date |-> p[1], severity |-> Some(p[2]),
            count |-> Cardinality({r \in rows :
                        /\ DateOf(r["timestamp"]) = p[1]
                        /\ r["severity"] = Some(p[2])})] :
             p \in days \X LogSeverity}
     ELSE {[date |-> d, severity |-> None,
            count |-> Cardinality({r \in rows : DateOf(r["timestamp"]) = d})] :
             d \in days}

\* GROUP BY cast(timestamp, Date), severity (or the date alone) with
\* count(id): one LogTrend per group that has a row.
TrendGroups(rows, group_by_severity) ==
  IF group_by_severity
  THEN {[date |-> p[1], severity |-> p[2],
         count |-> Cardinality({r \in rows :
                     /\ DateOf(r["timestamp"]) = p[1]
                     /\ r["severity"] = p[2]})] :
          p \in {<<DateOf(r["timestamp"]), r["severity"]>> : r \in rows}}
  ELSE {[date |-> d, severity |-> None,
         count |-> Cardinality({r \in rows : DateOf(r["timestamp"]) = d})] :
          d \in {DateOf(r["timestamp"]) : r \in rows}}

\* .order_by("date"): every arrangement of the groups with the dates
\* non-decreasing (groups of one date come in any order).
OrderByDate(groups) ==
  LET n == Cardinality(groups)
  IN {f \in [1..n -> groups] :
        /\ \A i, j \in 1..n : i # j => f[i] # f[j]
        /\ \A i, j \in 1..n : i < j => f[i].date <= f[j].date}

\* GET /logs/trend.
get_log_trend(q) ==
  /\ out = NoOutput
  /\ LET rows == {r \in db : trend_conditions(r, q)}
     IN \E series \in OrderByDate(TrendGroups(rows, q.group_by_severity)) :
          out' = [op |-> "trend", q |-> q, status |-> 200, series |-> series]
  /\ UNCHANGED <<db, seq, now, sess, issued, deleted, served>>

\* ------------------------------------------------------- query inputs

srcA == <<"a">>
srcAB == <<"a", "b">>
srcUpperA == <<"A">>
msgX == <<"x">>
msgXY == <<"x", "y">>

\* Datetimes: one older than 30 days, two on the same recent day, and
\* one later that day.
tOld == 10 * HoursPerDay + 5
tDay == 49 * HoursPerDay + 8
tEve == 49 * HoursPerDay + 20

SampleRow(i, t, m, sev, src) ==
  [id |-> i, timestamp |-> t, message |-> Some(m), severity |-> Some(sev),
   source |-> Some(src), metadata_json |-> None,
   created_at |-> t, updated_at |-> t]

\* Rows a table may hold when the queries run.
SampleRows ==
  { SampleRow(1, tOld, msgX, "INFO", srcA),
    SampleRow(2, tDay, msgXY, "ERROR", srcAB),
    SampleRow(3, tEve, msgX, "ERROR", srcUpperA),
    SampleRow(4, tDay, msgXY, "INFO", srcA) }

\* Largest page number requested.
MaxPage == 3

Filters ==
  [start_date : {None, Some(tEve)},
   end_date : {None, Some(tDay)},
   severity : {None, Some("ERROR")},
   source : {None, Some(<<>>), Some(srcA), Some(<<"_">>)}]

ListQueries ==
  [start_date : {None, Some(tEve)},
   end_date : {None, Some(tDay)},
   severity : {None, Some("ERROR")},
   source : {None, Some(<<>>), Some(srcA), Some(<<"_">>)},
   search : {None, Some(<<"Y">>)},
   page : 0..MaxPage,
   page_size : {0, 1, 2, MAX_PAGE_SIZE, MAX_PAGE_SIZE + 1},
   sort_by : {"timestamp", "severity", "id", "nonsense", "metadata"},
   sort_order : {<<"a", "s", "c">>, <<"d", "e", "s", "c">>,
                 <<"A", "S", "C">>, <<"u", "p">>}]

StatsQueries ==
  [start_date : {None, Some(tEve)},
   end_date : {None, Some(tDay)},
   source : {None, Some(<<>>), Some(srcA), Some(srcAB)}]

TrendQueries ==
  [start_date : {None, Some(tEve)},
   end_date : {None, Some(tDay)},
   severity : {None, Some("ERROR")},
   source : {None, Some(<<>>), Some(srcA), Some(srcAB)},
   group_by_severity : BOOLEAN]

\* ------------------------------------------------------ specification

Init ==
  /\ db = {}
  /\ seq = 0
  /\ now = 0
  /\ sess = [s \in Sessions |-> IdleSession]
  /\ issued = <<>>
  /\ deleted = {}
  /\ served = 0
  /\ out = NoOutput

Step(s) ==
  \/ \E b \in CreateBodies : create_log(s, b)
  \/ \E i \in LogIds : get_log(s, i)
  \/ \E i \in LogIds, b \in UpdateBodies : update_log(s, i, b)
  \/ \E i \in LogIds : delete_log(s, i)
  \/ flush_refresh(s)
  \/ Commit(s)
  \/ Respond(s)

Next == \E s \in Sessions : Step(s)

\* Requests served concurrently, their database statements interleaved.
Spec == Init /\ [][Next]_vars

\* The read queries against a table holding any of the sample rows.
InitQuery ==
  /\ db \in SUBSET SampleRows
  /\ seq = Cardinality(SampleRows)
  /\ now = 0
  /\ sess = [s \in Sessions |-> IdleSession]
  /\ issued = <<>>
  /\ deleted = {}
  /\ served = 0
  /\ out = NoOutput

\* One read request at a time, with any of the query inputs.
ListRequest == out = NoOutput /\ \E q \in ListQueries : list_logs(q)
ExportRequest == out = NoOutput /\ \E q \in Filters : export_logs_csv(q)
StatsRequest == out = NoOutput /\ \E q \in StatsQueries : get_log_stats(q)
TrendRequest == out = NoOutput /\ \E q \in TrendQueries : get_log_trend(q)

NextQuery ==
  ListRequest \/ ExportRequest \/ StatsRequest \/ TrendRequest \/ Deliver

SpecQuery == InitQuery /\ [][NextQuery]_vars


\* Requests served one at a time: a request is accepted, and runs to its
\* end, while every other slot is idle.
OthersIdle(s) == \A t \in Sessions \ {s} : sess[t].pc = "idle"

NextSerial == \E s \in Sessions : OthersIdle(s) /\ Step(s)

SpecSerial == Init /\ [][NextSerial]_vars

\* ------------------------------------------------------------- claims

\* C1.  An update that succeeds, with no other request in flight, leaves
\* every supplied field equal to the supplied value, every field it does
\* not supply, and id, timestamp and created_at, as they were, and every
\* other row of the table unchanged.
C1_UpdateFrame ==
  [][\A s \in Sessions :
       (sess[s].op = "update" /\ sess[s].pc = "commit"
          /\ sess'[s].pc = "done" /\ sess'[s].status = 200) =>
         LET data == sess[s].data
             old == Select(db, sess[s].id)
             new == Select(db', sess[s].id)
             kept == (LogUpdateFields \ DOMAIN data)
                       \cup {"id", "timestamp", "created_at"}
         IN /\ Cardinality(old) = 1
            /\ Cardinality(new) = 1
            /\ \A n \in new : \A f \in DOMAIN data : n[f] = data[f]
            /\ \A n \in new, o \in old : \A f \in kept : n[f] = o[f]
            /\ db' \ new = db \ old]_vars

\* C1 witness: a two-field update of one of two rows has committed; the
\* row carries the supplied message and null metadata, its own severity,
\* and a later updated_at.
C1_Witness ==
  \E s \in Sessions :
    /\ sess[s].op = "update" /\ sess[s].pc = "done" /\ sess[s].status = 200
    /\ sess[s].data = [message |-> Some(msgB), metadata_json |-> None]
    /\ Cardinality(db) = 2
    /\ \E r \in Select(db, sess[s].id) :
         /\ r["message"] = Some(msgB)
         /\ r["metadata_json"] = None
         /\ r["severity"] = Some("ERROR")
         /\ r["updated_at"] > r["created_at"]

\* C2.  Every row of the committed table has a non-empty message, a
\* non-empty source and a severity among the five values.
C2_StoredFieldsValid ==
  \A r \in db :
    /\ r["message"] # None /\ Len(TheValue(r["message"])) >= 1
    /\ r["source"] # None /\ Len(TheValue(r["source"])) >= 1
    /\ r["severity"] # None /\ TheValue(r["severity"]) \in LogSeverity

\* C2 witness: an update supplying an explicit null severity has ended
\* (in an error) and its row is still stored.
C2_Witness ==
  \E s \in Sessions :
    /\ sess[s].op = "update" /\ sess[s].pc = "done"
    /\ sess[s].data = [severity |-> None]
    /\ sess[s].status = 500
    /\ Select(db, sess[s].id) # {}

\* The list query with no filter.
AllLogs ==
  [start_date |-> None, end_date |-> None, severity |-> None,
   source |-> None, search |-> None, page |-> 1,
   page_size |-> DEFAULT_PAGE_SIZE, sort_by |-> "timestamp",
   sort_order |-> <<"d", "e", "s", "c">>]

\* C6.  Once a delete of an id has committed, no row of that id is stored
\* or listed again, and every get, update or delete that looks the id up
\* afterwards ends in 404.
C6_DeletedStaysGone ==
  /\ \A x \in deleted :
       /\ Select(db, x) = {}
       /\ \A r \in {y \in db : list_conditions(y, AllLogs)} : r["id"] # x
  /\ \A s \in Sessions : sess[s].seen = "deleted" => sess[s].status = 404

\* C6 witness: an update that had read the row before its delete
\* committed has failed, and a later request for the id got 404.
C6_Witness ==
  \E s, t \in Sessions :
    /\ sess[s].op = "update" /\ sess[s].pc = "done"
    /\ sess[s].seen = "live" /\ sess[s].id \in deleted
    /\ sess[s].status = 500
    /\ sess[t].seen = "deleted" /\ sess[t].status = 404
    /\ sess[t].id = sess[s].id

\* C7.  The ids returned by completed creates are pairwise different;
\* each keeps exactly one row until it is deleted; and a get of such an
\* id returns the row of that id.
C7_IdsUniqueAndStable ==
  /\ \A i, j \in 1..Len(issued) : i # j => issued[i] # issued[j]
  /\ \A i \in 1..Len(issued) :
       issued[i] \notin deleted => Cardinality(Select(db, issued[i])) = 1
  /\ \A s \in Sessions :
       sess[s].op = "get" /\ sess[s].seen = "live" =>
         /\ sess[s].status = 200
         /\ sess[s].resp # None
         /\ TheValue(sess[s].resp)["id"] = sess[s].id

\* C7 witness: two creates have completed and a get has returned one of
\* the rows after an update of it.
C7_Witness ==
  /\ Len(issued) = 2
  /\ \E s \in Sessions :
       /\ sess[s].op = "get" /\ sess[s].seen = "live"
       /\ sess[s].status = 200
       /\ TheValue(sess[s].resp)["updated_at"]
            > TheValue(sess[s].resp)["created_at"]

\* C8 as claimed.  A request that has ended committed its session once
\* and never rolled it back when it succeeded, rolled it back once and
\* never committed it when it raised, closed it exactly once, and left
\* it closed.
C8_ClosedExactlyOnce ==
  \A s \in Sessions :
    sess[s].pc = "done" =>
      /\ sess[s].status \in OkStatuses =>
           sess[s].commits = 1 /\ sess[s].rollbacks = 0
      /\ sess[s].status \notin OkStatuses =>
           sess[s].commits = 0 /\ sess[s].rollbacks = 1
      /\ sess[s].closes = 1
      /\ ~sess[s].open

\* C8 as amended.  The same, except that close is called twice on every
\* exit path (by the finally block, then by the exit of the async-with
\* block); no slot that is idle or has ended holds an open session.
C8_SessionLifecycle ==
  \A s \in Sessions :
    /\ sess[s].pc = "done" =>
         /\ sess[s].status \in OkStatuses =>
              sess[s].commits = 1 /\ sess[s].rollbacks = 0
         /\ sess[s].status \notin OkStatuses =>
              sess[s].commits = 0 /\ sess[s].rollbacks = 1
         /\ sess[s].closes = 2
    /\ sess[s].pc \in {"idle", "done"} => ~sess[s].open

\* C8 witness: a request has ended in NotFound, rolled back, and another
\* has ended successfully, committed.
C8_Witness ==
  \E s, t \in Sessions :
    /\ sess[s].pc = "done" /\ sess[s].status = 404
    /\ sess[s].rollbacks = 1
    /\ sess[t].pc = "done" /\ sess[t].status \in OkStatuses
    /\ sess[t].commits = 1

\* C9.  No step of an update request that goes on to fail, or fails in
\* that step (422, 404 or 500), changes the committed table.
C9_FailedUpdateChangesNothing ==
  [][\A s \in Sessions :
       (sess'[s].pc # sess[s].pc /\ sess'[s].op = "update"
          /\ sess'[s].status \notin OkStatuses) => db' = db]_vars

\* C9 witness: an update supplying a valid message and a null source has
\* failed and the row still carries its old message.
C9_Witness ==
  \E s \in Sessions :
    /\ sess[s].op = "update" /\ sess[s].pc = "done"
    /\ sess[s].status = 500
    /\ sess[s].data = [source |-> None, message |-> Some(msgB)]
    /\ Cardinality(db) = 2
    /\ \E r \in Select(db, sess[s].id) : r["message"] = Some(msgA)

\* C10 as claimed.  When an update commits after another update of the
\* same row committed during its flight, every field both supplied holds,
\* after the commit, the value the later one supplied.
C10_LastCommitWins ==
  [][\A s \in Sessions :
       (sess[s].op = "update" /\ sess[s].pc = "commit"
          /\ sess'[s].pc = "done") =>
         \A f \in sess[s].rivals \cap DOMAIN sess[s].data :
           \A r \in Select(db', sess[s].id) : r[f] = sess[s].data[f]]_vars


\* The list query that carries the filters of an export request and
\* nothing else.
ListQueryOf(f) ==
  [start_date |-> f.start_date, end_date |-> f.end_date,
   severity |-> f.severity, source |-> f.source, search |-> None,
   page |-> 1, page_size |-> DEFAULT_PAGE_SIZE, sort_by |-> "timestamp",
   sort_order |-> <<"d", "e", "s", "c">>]

\* C3 as claimed.  The number of data rows of an exported CSV equals the
\* total that list returns for the same table under the same startDate,
\* endDate, severity and source.
C3_ExportMatchesList ==
  out.op = "export" =>
    Len(out.csv) - 1 = list_total(db, ListQueryOf(out.q))

\* Whether trend is the ascending sequence of per-day counts of rows.
IsDailyCountsOf(trend, rows) ==
  /\ \A i, j \in 1..Len(trend) : i < j => trend[i].date < trend[j].date
  /\ \A i \in 1..Len(trend) :
       /\ trend[i].count >= 1
       /\ trend[i].count =
            Cardinality({r \in rows : DateOf(r["timestamp"]) = trend[i].date})
  /\ \A r \in rows :
       \E i \in 1..Len(trend) : trend[i].date = DateOf(r["timestamp"])

\* C4 as claimed.  When a stats request supplies neither startDate nor
\* endDate, with or without a source, trendData counts the rows of the
\* last 30 days (of that source, when one is given); when it supplies a
\* date bound, trendData counts the rows matching the supplied filters;
\* in both cases one entry per day, ascending by date.
C4_StatsTrendWindow ==
  out.op = "stats" =>
    LET q == out.q
        bySource == {r \in db : Truthy(q.source) => r["source"] = q.source}
        expected ==
          IF q.start_date = None /\ q.end_date = None
          THEN {r \in bySource : r["timestamp"] >= thirty_days_ago}
          ELSE {r \in bySource :
                  /\ q.start_date # None =>
                       r["timestamp"] >= TheValue(q.start_date)
                  /\ q.end_date # None =>
                       r["timestamp"] <= TheValue(q.end_date)}
    IN IsDailyCountsOf(out.trend_data, expected)

\* Whether row a comes strictly before row b under the sort of query q.
Precedes(a, b, q) ==
  LET col == sort_column(q.sort_by)
  IN IF IsAsc(q.sort_order)
     THEN SortKey(a, col) < SortKey(b, col)
     ELSE SortKey(a, col) > SortKey(b, col)

\* C5.  A list request with page >= 1, pageSize in 1..100 and a sort
\* attribute that resolves to a column returns total = the number of
\* matching rows, totalPages = ceil(total / pageSize), and as items the
\* matching rows at positions (page-1)*pageSize+1 .. page*pageSize of the
\* sort order: min(pageSize, what is left from the offset) distinct
\* matching rows, the k-th of which has fewer than offset+k rows strictly
\* before it and at least offset+k rows not after it.
C5_ListPagination ==
  (out.op = "list" /\ out.q.page >= 1 /\ out.q.page_size \in 1..MAX_PAGE_SIZE
     /\ sort_column(out.q.sort_by) \in Columns) =>
    /\ out.status = 200
    /\ LET q == out.q
           matching == {r \in db : list_conditions(r, q)}
           offset == (q.page - 1) * q.page_size
           n == Len(out.items)
       IN /\ out.total = Cardinality(matching)
          /\ out.total_pages * q.page_size >= out.total
          /\ (out.total_pages - 1) * q.page_size < out.total
          /\ n = Max(0, Min(q.page_size, out.total - offset))
          /\ q.page > out.total_pages => n = 0
          /\ \A i, j \in 1..n : i # j => out.items[i] # out.items[j]
          /\ \A k \in 1..n :
               /\ out.items[k] \in matching
               /\ Cardinality({r \in matching : Precedes(r, out.items[k], q)})
                    < offset + k
               /\ Cardinality({r \in matching : ~Precedes(out.items[k], r, q)})
                    >= offset + k

\* C5 witness: the last, partial page of three matching rows out of
\* four stored, two to a page, in ascending order of severity.
C5_Witness ==
  /\ out.op = "list" /\ out.status = 200
  /\ Cardinality(db) = 4
  /\ out.total = 3 /\ out.q.page = 2 /\ out.q.page_size = 2
  /\ out.total_pages = 2 /\ Len(out.items) = 1
  /\ out.q.sort_by = "severity" /\ IsAsc(out.q.sort_order)


\* Whether a query supplies a startDate later than its endDate.
InvertedRange(q) ==
  /\ q.start_date # None /\ q.end_date # None
  /\ TheValue(q.start_date) > TheValue(q.end_date)

\* C11.  When startDate is later than endDate, a list request (with
\* page >= 1, pageSize in 1..100 and a sort attribute that resolves to a
\* column) answers 200 with no items and total 0; a stats request
\* answers 200 with totalLogs 0 and empty severityBreakdown,
\* sourceBreakdown and trendData; a trend request answers 200 with an
\* empty series.
C11_InvertedRangeIsEmpty ==
  /\ (out.op = "list" /\ InvertedRange(out.q)
        /\ out.q.page >= 1 /\ out.q.page_size \in 1..MAX_PAGE_SIZE
        /\ sort_column(out.q.sort_by) \in Columns) =>
       (out.status = 200 /\ out.items = <<>> /\ out.total = 0)
  /\ (out.op = "stats" /\ InvertedRange(out.q)) =>
       /\ out.status = 200
       /\ out.total_logs = 0
       /\ out.severity_breakdown = <<>>
       /\ out.source_breakdown = <<>>
       /\ out.trend_data = <<>>
  /\ (out.op = "trend" /\ InvertedRange(out.q)) =>
       (out.status = 200 /\ out.series = <<>>)

\* C11 witness: a list request with startDate later than endDate and no
\* other filter, on a table holding rows between the two dates, has been
\* answered.
C11_Witness ==
  /\ out.op = "list" /\ out.status = 200
  /\ InvertedRange(out.q)
  /\ out.q.severity = None /\ out.q.source = None /\ out.q.search = None
  /\ \E r \in db :
       /\ r["timestamp"] <= TheValue(out.q.start_date)
       /\ r["timestamp"] >= TheValue(out.q.end_date)
  /\ out.total = 0


\* C12 as claimed.  A list request with page >= 1 and pageSize outside
\* 1..100 is answered 200 with pageSize clamped into 1..100; one with
\* page < 1 is answered 422 without any statement executed.
C12_PageSizeClamped ==
  /\ (out.op = "list" /\ out.q.page >= 1
        /\ out.q.page_size \notin 1..MAX_PAGE_SIZE
        /\ sort_column(out.q.sort_by) \in Columns) =>
       /\ out.status = 200
       /\ out.page_size = Max(1, Min(MAX_PAGE_SIZE, out.q.page_size))
  /\ (out.op = "list" /\ out.q.page < 1) =>
       (out.status = 422 /\ out.queries = 0)

\* C12 as amended.  A list request with pageSize outside 1..100, like
\* one with page < 1, is answered 422 without any statement executed.
C12_PaginationRejected ==
  (out.op = "list"
     /\ (out.q.page < 1 \/ out.q.page_size \notin 1..MAX_PAGE_SIZE)) =>
    (out.status = 422 /\ out.queries = 0)

\* C12 witness: a list request for page 1 with pageSize 101, on a table
\* that holds rows, has been answered 422.
C12_Witness ==
  /\ out.op = "list" /\ out.status = 422
  /\ out.q.page = 1 /\ out.q.page_size = MAX_PAGE_SIZE + 1
  /\ db # {}


\* C13.  A trend request returns, ascending by date, exactly one row per
\* (day, severity) pair, with groupBySeverity, or per day, without it,
\* that has a matching row, and the count of each returned row is the
\* number of matching rows of its day (and severity), never zero.
C13_TrendGroups ==
  out.op = "trend" =>
    LET q == out.q
        series == out.series
        matching == {r \in db : trend_conditions(r, q)}
        InGroup(r, g) ==
          /\ DateOf(r["timestamp"]) = g.date
          /\ q.group_by_severity => r["severity"] = g.severity
    IN /\ out.status = 200
       /\ \A i, j \in 1..Len(series) : i < j =>
            /\ series[i].date <= series[j].date
            /\ <<series[i].date, series[i].severity>>
                 # <<series[j].date, series[j].severity>>
       /\ \A i \in 1..Len(series) :
            /\ q.group_by_severity => series[i].severity # None
            /\ ~q.group_by_severity => series[i].severity = None
            /\ series[i].count >= 1
            /\ series[i].count =
                 Cardinality({r \in matching : InGroup(r, series[i])})
       /\ \A r \in matching :
            \E i \in 1..Len(series) : InGroup(r, series[i])

\* C13 witness: a trend grouped by severity with one row for an earlier
\* day and two rows, of different severities, for a later day.
C13_Witness ==
  /\ out.op = "trend" /\ out.q.group_by_severity
  /\ Len(out.series) = 3
  /\ out.series[1].date < out.series[2].date
  /\ out.series[2].date = out.series[3].date
  /\ out.series[2].severity # out.series[3].severity


\* Whether the items come in the order of their timestamps, ascending
\* or descending.
OrderedByTimestamp(items, ascending) ==
  \A i, j \in 1..Len(items) : i < j =>
    IF ascending
    THEN items[i]["timestamp"] <= items[j]["timestamp"]
    ELSE items[i]["timestamp"] >= items[j]["timestamp"]

\* C14 as claimed.  A list request that passes pagination validation and
\* whose sortBy is not the name of an entry field, the names of other
\* attributes of the Log class included, is answered 200 with its items
\* in the order of their timestamps; and a request answered 200 whose
\* sortOrder is not "asc" in any letter case has its items in descending
\* order of the sort column.
C14_SortFallback ==
  (out.op = "list" /\ ValidListParams(out.q)) =>
    /\ out.q.sort_by \notin Columns =>
         /\ out.status = 200
         /\ OrderedByTimestamp(out.items, IsAsc(out.q.sort_order))
    /\ (out.status = 200 /\ ~IsAsc(out.q.sort_order)) =>
         \A i, j \in 1..Len(out.items) : i < j =>
           SortKey(out.items[i], sort_column(out.q.sort_by))
             >= SortKey(out.items[j], sort_column(out.q.sort_by))

=============================================================================
